---- MODULE Spec2Model ----
(***************************************************************************)
(* node-red-contrib-msg-queue: the 'queue' node (queue.js, kept in         *)
(* src/README.md from line 104) and the 'retry-queue' node                 *)
(* (src/queue/retry-queue.js), each driving one node-persistent-queue      *)
(* store.  Every handler runs to completion (single-threaded event loop);  *)
(* one action of the model is one handler, with every call it makes.       *)
(*                                                                         *)
(* Payload messages are numbered in arrival order: the jobs a prior        *)
(* session left in the store are 1..nPrior, the messages of this session   *)
(* follow.  A status text is a sequence of tokens.  The configuration      *)
(* fields the retry-queue node never reads are fixed for it.               *)
(***************************************************************************)
EXTENDS Integers, Sequences, FiniteSets, Bags, TLC

\* ------------------------------------------------------------------ bounds
MaxMsgs == 3
MaxPrior == 1
MaxInitState == 1
MaxRetryEvents == 4
MaxCloses == 2

\* ------------------------------------------------------------- vocabulary
NS == "node-red:common.status."
Anchor == "^"

Texts ==
    { <<"connected">>, <<"dis", "connected">>, <<"down">>, <<"up">>,
      <<NS, "connected">> }

ConnectedRules == { <<>>, <<"connected">>, <<Anchor, "connected">> }
DisconnectedRules == { <<>>, <<"dis">>, <<"down">> }
MatchTypes == { "str", "re" }

Configs ==
    { c \in [ connectedMatch : ConnectedRules,
              connectedMatchType : MatchTypes,
              disconnectedMatch : DisconnectedRules,
              disconnectedMatchType : MatchTypes,
              maxDBFileSize : BOOLEAN,
              nodeType : { "queue", "retry-queue" },
              ack_mode : { "ack", "nack" } ] :
        /\ (c.nodeType = "queue" => c.ack_mode = "ack")
        /\ (c.nodeType = "retry-queue" =>
              /\ c.connectedMatch = <<>>
              /\ c.disconnectedMatch = <<>>
              /\ ~c.maxDBFileSize)
        /\ (c.connectedMatch = <<>> => c.connectedMatchType = "str")
        /\ (c.disconnectedMatch = <<>> => c.disconnectedMatchType = "str") }

\* The configurations the node is run with: for the queue node the README's
\* example (a pattern for connected, nothing for disconnected), its converse,
\* and both rules set; for the retry-queue node its two modes.
NodeConfigs ==
    { c \in Configs :
        \/ c.nodeType = "retry-queue"
        \/ /\ c.connectedMatch = <<Anchor, "connected">>
           /\ c.connectedMatchType = "re"
           /\ c.disconnectedMatch = <<>>
        \/ /\ c.connectedMatch = <<>>
           /\ c.disconnectedMatch = <<"down">>
           /\ c.disconnectedMatchType = "str"
        \/ /\ c.connectedMatch = <<"connected">>
           /\ c.connectedMatchType = "str"
           /\ c.disconnectedMatch = <<"dis">>
           /\ c.disconnectedMatchType = "str" }

\* ---------------------------------------------------------------- messages
\* A message object: its payload and, when it has them, its queue_id and
\* status properties.
Msg(n) == [payload |-> n, queue_id |-> <<>>, status |-> <<>>]

StatusMsg(text) == [payload |-> 0, queue_id |-> <<>>, status |-> << text >>]

WithQueueId(m, id) == [m EXCEPT !.queue_id = << id >>]

VARIABLES
    config,                 \* the node's configuration (fixed at construction)
    prior,                  \* the jobs a prior session left in the store
    isConnected,
    isNodeClosing,
    initStateMsgs,
    initMsgs,
    statusTimer,            \* TRUE: an interval handle, FALSE: null
    fileSizeTimer,          \* [handle: the variable holds a handle, armed: the interval runs]
    maxDBFileSizeReached,
    status,                 \* the last status computed by statusOutput
    listener,               \* which 'input' listener is registered
    timeouts,               \* retry-queue: the ids that have an entry in timeouts
    timers,                 \* retry-queue: the bag of setTimeout timers not yet fired
    queue,                  \* the PersistentQueue
    pending,                \* asynchronous work in progress (promises not yet settled)
    out,                    \* every node.send, in order
    log,                    \* what the node did with each payload received, in order
    deleted,                \* every queue.delete(id), in order
    events,                 \* retry-queue: how many inputs and timer firings so far
    nextTrace,              \* what the 'next' handler of the current dispatch did
    signal                  \* the status signal the last step processed, if it did

vars ==
    << config, prior, isConnected, isNodeClosing, initStateMsgs, initMsgs,
       statusTimer, fileSizeTimer, maxDBFileSizeReached, status, listener,
       timeouts, timers, queue, pending, out, log, deleted, events, nextTrace, signal >>

\* The mutable state as one record, so that a handler is a function of it.
\* signal describes the last step only: every step starts with it empty.
S ==
    [ isConnected |-> isConnected, isNodeClosing |-> isNodeClosing,
      initStateMsgs |-> initStateMsgs, initMsgs |-> initMsgs,
      statusTimer |-> statusTimer, fileSizeTimer |-> fileSizeTimer,
      maxDBFileSizeReached |-> maxDBFileSizeReached, status |-> status,
      listener |-> listener, timeouts |-> timeouts, timers |-> timers,
      queue |-> queue, pending |-> pending, out |-> out, log |-> log,
      deleted |-> deleted, events |-> events, nextTrace |-> nextTrace,
      signal |-> <<>> ]

Commit(s) ==
    /\ isConnected' = s.isConnected
    /\ isNodeClosing' = s.isNodeClosing
    /\ initStateMsgs' = s.initStateMsgs
    /\ initMsgs' = s.initMsgs
    /\ statusTimer' = s.statusTimer
    /\ fileSizeTimer' = s.fileSizeTimer
    /\ maxDBFileSizeReached' = s.maxDBFileSizeReached
    /\ status' = s.status
    /\ listener' = s.listener
    /\ timeouts' = s.timeouts
    /\ timers' = s.timers
    /\ queue' = s.queue
    /\ pending' = s.pending
    /\ out' = s.out
    /\ log' = s.log
    /\ deleted' = s.deleted
    /\ events' = s.events
    /\ nextTrace' = s.nextTrace
    /\ signal' = s.signal
    /\ UNCHANGED << config, prior >>

IsQueueNode == config.nodeType = "queue"

\* --------------------------------------------------------- sequence helpers
IsPrefix(p, t) ==
    /\ Len(p) <= Len(t)
    /\ \A i \in 1..Len(p) : p[i] = t[i]

\* String.prototype.includes: p occurs in t as a contiguous run.
Includes(t, p) ==
    \E k \in 0..(Len(t) - Len(p)) : \A i \in 1..Len(p) : t[k + i] = p[i]

\* String.prototype.match with a pattern that is a literal, optionally anchored
\* at the start of the text by a leading ^.
ReMatch(t, p) ==
    IF p # <<>> /\ Head(p) = Anchor THEN IsPrefix(Tail(p), t) ELSE Includes(t, p)

\* ------------------------------------------- PersistentQueue: the queries
QueueIsOpen(s) == s.queue.phase \in { "open", "closing" }

QueueIsStarted(s) == s.queue.run

QueueIsEmpty(s) == s.queue.jobs = <<>>

QueueGetLength(s) == Len(s.queue.jobs)

\* ------------------------------------------------- queue.js: status, timers
Send(s, m) == [s EXCEPT !.out = Append(@, m)]

StatusOutput(s) ==
    LET remaining == << QueueGetLength(s) >>
        st == IF s.maxDBFileSizeReached
                THEN [fill |-> "red", shape |-> "ring",
                      text |-> "Max DB Size Reached", remaining |-> <<>>]
              ELSE IF ~QueueIsEmpty(s) /\ s.isConnected
                THEN [fill |-> "green", shape |-> "ring",
                      text |-> "Processing", remaining |-> remaining]
              ELSE IF QueueIsEmpty(s) /\ s.isConnected
                THEN [fill |-> "green", shape |-> "dot",
                      text |-> "Forwarding", remaining |-> remaining]
              ELSE [fill |-> "yellow", shape |-> "ring",
                    text |-> "Storing", remaining |-> remaining]
    IN  [s EXCEPT !.status = st]

SetStatusTimer(s) ==
    IF s.isNodeClosing \/ s.maxDBFileSizeReached THEN s
    ELSE IF ~s.isConnected \/ (s.isConnected /\ ~QueueIsEmpty(s))
      THEN (IF ~s.statusTimer THEN [s EXCEPT !.statusTimer = TRUE] ELSE s)
    ELSE IF s.statusTimer THEN [s EXCEPT !.statusTimer = FALSE]
    ELSE s

SetFileSizeTimer(s) ==
    IF s.isNodeClosing \/ s.maxDBFileSizeReached THEN s
    ELSE IF config.maxDBFileSize
            /\ (~s.isConnected \/ (s.isConnected /\ ~QueueIsEmpty(s)))
      THEN (IF ~s.fileSizeTimer.handle
              THEN [s EXCEPT !.fileSizeTimer = [handle |-> TRUE, armed |-> TRUE]]
              ELSE s)
    ELSE IF s.fileSizeTimer.handle
      THEN [s EXCEPT !.fileSizeTimer = [handle |-> FALSE, armed |-> FALSE]]
    ELSE s

\* The two blocks that clear the timers in the close handler and in checkDBSize:
\* the second clears the file-size interval but nulls statusTimer, so the
\* fileSizeTimer variable keeps its (cleared) handle.
ClearTimers(s) ==
    LET s1 == IF s.statusTimer THEN [s EXCEPT !.statusTimer = FALSE] ELSE s
    IN  IF s1.fileSizeTimer.handle
          THEN [s1 EXCEPT !.fileSizeTimer.armed = FALSE, !.statusTimer = FALSE]
          ELSE s1

\* ------------------------------------------- retry-queue.js: status, timers
RetryStatusOutput(s) ==
    [s EXCEPT !.status = [fill |-> "green", shape |-> "ring", text |-> "Processing",
                          remaining |-> << QueueGetLength(s) >>]]

RetrySetStatusTimer(s) ==
    IF ~QueueIsEmpty(s)
      THEN (IF ~s.statusTimer THEN [s EXCEPT !.statusTimer = TRUE] ELSE s)
    ELSE IF s.statusTimer THEN [s EXCEPT !.statusTimer = FALSE]
    ELSE s

Timer(m, kind, tracked) == [msg |-> m, kind |-> kind, tracked |-> tracked]

\* timeouts[msg.queue_id] = setTimeout(...): the entry is overwritten, and a
\* timer it named before keeps running without a handle to it.
ArmTimeout(s, m) ==
    LET old == { x \in BagToSet(s.timers) :
                   x.tracked /\ x.msg.queue_id = m.queue_id }
        untracked == (s.timers (-) SetToBag(old))
                       (+) SetToBag({ [x EXCEPT !.tracked = FALSE] : x \in old })
    IN  [s EXCEPT !.timers = untracked (+) SetToBag({ Timer(m, "timeout", TRUE) }),
                  !.timeouts = @ \cup { m.queue_id[1] }]

\* reSend, up to arming the timeout (its callback is TimeoutCallback).
ReSend(s, m) == ArmTimeout(Send(s, m), m)

\* ----------------------------------------------- the store's 'start', 'stop'
OnStart(s) ==
    SetFileSizeTimer(SetStatusTimer(IF ~QueueIsEmpty(s) THEN StatusOutput(s) ELSE s))

OnStop(s) == SetFileSizeTimer(SetStatusTimer(s))

OnAdd(s, job) == SetFileSizeTimer(SetStatusTimer(s))

RetryOnStart(s) ==
    RetrySetStatusTimer(IF ~QueueIsEmpty(s) THEN RetryStatusOutput(s) ELSE s)

RetryOnStop(s) == RetrySetStatusTimer(s)

RetryOnAdd(s, job) ==
    LET s1 == RetrySetStatusTimer(s)
    IN  IF ~QueueIsStarted(s1) THEN ReSend(s1, WithQueueId(job.job, job.id)) ELSE s1

\* ------------------------------------------ PersistentQueue: the commands
\* add(payload): assigns the next id, appends the job, emits 'add'.
QueueAdd(s, m) ==
    LET id == s.queue.lastID + 1
        job == [id |-> id, job |-> m]
        s1 == [s EXCEPT !.queue.jobs = Append(@, job), !.queue.lastID = id]
    IN  IF IsQueueNode THEN OnAdd(s1, job) ELSE RetryOnAdd(s1, job)

\* start(): the store begins to hand out jobs; emits 'start'.
QueueStart(s) ==
    IF QueueIsOpen(s)
      THEN LET s1 == [s EXCEPT !.queue.run = TRUE]
           IN  IF IsQueueNode THEN OnStart(s1) ELSE RetryOnStart(s1)
      ELSE s

\* stop(): the store hands out no further job; emits 'stop'.
QueueStop(s) ==
    LET s1 == [s EXCEPT !.queue.run = FALSE]
    IN  IF IsQueueNode THEN OnStop(s1) ELSE RetryOnStop(s1)

\* done(): the dispatch handed out by 'next' is complete.
QueueDone(s) ==
    [s EXCEPT !.queue.dispatched =
        IF @ = <<>> THEN @ ELSE << [@[1] EXCEPT !.dones = @ + 1] >>]

\* delete(id): the job with that id leaves the store.
QueueDelete(s, id) ==
    [s EXCEPT !.queue.jobs = SelectSeq(@, LAMBDA j : j.id # id),
              !.deleted = Append(@, id)]

\* close(): returns a promise; the store is closed when it settles.
QueueClose(s) ==
    [s EXCEPT !.queue.phase = IF @ = "open" THEN "closing" ELSE @,
              !.queue.closes = @ + 1]

\* --------------------------------------------- the store's 'next', 'empty'
\* A faulty variant of the 'next' handler: it never calls done().
OnNextWithoutDone(s, job) == Send(s, job.job)

OnNext(s, job) == QueueDone(Send(s, job.job))

OnEmpty(s) == SetFileSizeTimer(SetStatusTimer(StatusOutput(s)))

RetryOnNext(s, job) == QueueDone(Send(s, WithQueueId(job.job, job.id)))

RetryOnEmpty(s) == QueueStop(RetrySetStatusTimer(RetryStatusOutput(s)))

\* ------------------------------------------------ queue.js: connectivity
Connected(s) ==
    IF ~s.isConnected
      THEN LET s1 == [s EXCEPT !.isConnected = TRUE]
           IN  IF ~QueueIsStarted(s1) THEN QueueStart(s1) ELSE s1
      ELSE s

\* A faulty variant of disconnected(): it leaves the store started.
DisconnectedWithoutStop(s) ==
    IF s.isConnected THEN [s EXCEPT !.isConnected = FALSE] ELSE s

Disconnected(s) ==
    IF s.isConnected
      THEN LET s1 == [s EXCEPT !.isConnected = FALSE]
           IN  IF QueueIsStarted(s1) THEN QueueStop(s1) ELSE s1
      ELSE s

\* status.replace(/^node-red:common\.status\./, '')
StripPrefix(text) ==
    IF text # <<>> /\ Head(text) = NS THEN Tail(text) ELSE text

\* Faulty variants of the chain of processStatus: one that tests the
\* disconnected rule first, one whose default with no disconnected rule is
\* connected, one that never ignores a signal.
StatusBranchDisconnectedFirst(text) ==
    LET st == StripPrefix(text)
        cm == config.connectedMatch
        dm == config.disconnectedMatch
    IN  IF \/ dm # <<>> /\ config.disconnectedMatchType = "str" /\ Includes(st, dm)
           \/ dm # <<>> /\ config.disconnectedMatchType = "re" /\ ReMatch(st, dm)
          THEN "disconnected"
        ELSE IF \/ cm # <<>> /\ config.connectedMatchType = "str" /\ Includes(st, cm)
                \/ cm # <<>> /\ config.connectedMatchType = "re" /\ ReMatch(st, cm)
          THEN "connected"
        ELSE IF cm = <<>> THEN "connected"
        ELSE IF dm = <<>> THEN "disconnected"
        ELSE "none"

StatusBranchDefaultConnected(text) ==
    LET st == StripPrefix(text)
        cm == config.connectedMatch
        dm == config.disconnectedMatch
    IN  IF \/ cm # <<>> /\ config.connectedMatchType = "str" /\ Includes(st, cm)
           \/ cm # <<>> /\ config.connectedMatchType = "re" /\ ReMatch(st, cm)
          THEN "connected"
        ELSE IF \/ dm # <<>> /\ config.disconnectedMatchType = "str" /\ Includes(st, dm)
                \/ dm # <<>> /\ config.disconnectedMatchType = "re" /\ ReMatch(st, dm)
          THEN "disconnected"
        ELSE IF cm = <<>> \/ dm = <<>> THEN "connected"
        ELSE "none"

StatusBranchNeverIgnores(text) ==
    LET st == StripPrefix(text)
        cm == config.connectedMatch
        dm == config.disconnectedMatch
    IN  IF \/ cm # <<>> /\ config.connectedMatchType = "str" /\ Includes(st, cm)
           \/ cm # <<>> /\ config.connectedMatchType = "re" /\ ReMatch(st, cm)
          THEN "connected"
        ELSE IF \/ dm # <<>> /\ config.disconnectedMatchType = "str" /\ Includes(st, dm)
                \/ dm # <<>> /\ config.disconnectedMatchType = "re" /\ ReMatch(st, dm)
          THEN "disconnected"
        ELSE IF cm = <<>> THEN "connected"
        ELSE "disconnected"

\* The if / else-if chain of processStatus: which of connected(),
\* disconnected() it calls for a status text, or neither.
StatusBranch(text) ==
    LET st == StripPrefix(text)
        cm == config.connectedMatch
        dm == config.disconnectedMatch
    IN  IF \/ cm # <<>> /\ config.connectedMatchType = "str" /\ Includes(st, cm)
           \/ cm # <<>> /\ config.connectedMatchType = "re" /\ ReMatch(st, cm)
          THEN "connected"
        ELSE IF \/ dm # <<>> /\ config.disconnectedMatchType = "str" /\ Includes(st, dm)
                \/ dm # <<>> /\ config.disconnectedMatchType = "re" /\ ReMatch(st, dm)
          THEN "disconnected"
        ELSE IF cm = <<>> THEN "connected"
        ELSE IF dm = <<>> THEN "disconnected"
        ELSE "none"

ProcessStatus(s, text) ==
    LET b == StatusBranch(text)
        s1 == IF b = "connected" THEN Connected(s)
              ELSE IF b = "disconnected" THEN Disconnected(s)
              ELSE s
    IN  StatusOutput(s1)

\* ------------------------------------------------ queue.js: input handlers
\* initialState: the listener registered while the store is opening.
InitialState(s, m) ==
    IF m.status # <<>>
      THEN [s EXCEPT !.initStateMsgs = Append(@, m)]
      ELSE [s EXCEPT !.initMsgs = Append(@, m)]

\* Faulty variants of the input listener: one that forgets the connectivity
\* state in the bypass test, one that has no bypass.
InputIgnoringState(s, m) ==
    IF m.status # <<>> THEN ProcessStatus(s, m.status[1])
    ELSE IF s.maxDBFileSizeReached \/ QueueIsEmpty(s)
      THEN Send(s, m)
    ELSE QueueAdd(s, m)

InputWithoutBypass(s, m) ==
    IF m.status # <<>> THEN ProcessStatus(s, m.status[1])
    ELSE IF s.maxDBFileSizeReached
      THEN Send(s, m)
    ELSE QueueAdd(s, m)

\* The listener registered by the 'open' handler.
Input(s, m) ==
    IF m.status # <<>> THEN ProcessStatus(s, m.status[1])
    ELSE IF s.maxDBFileSizeReached \/ (s.isConnected /\ QueueIsEmpty(s))
      THEN Send(s, m)
    ELSE QueueAdd(s, m)

RECURSIVE AddAll(_, _)
AddAll(s, msgs) ==
    IF msgs = <<>> THEN s ELSE AddAll(QueueAdd(s, Head(msgs)), Tail(msgs))

RECURSIVE ProcessAll(_, _)
ProcessAll(s, msgs) ==
    IF msgs = <<>> THEN s
    ELSE ProcessAll(ProcessStatus(s, Head(msgs).status[1]), Tail(msgs))

\* queue.on('open'): replay what was buffered, then listen for input.
OnOpen(s) ==
    LET s1 == [AddAll(s, s.initMsgs) EXCEPT !.initMsgs = <<>>]
        s2 == [ProcessAll(s1, s1.initStateMsgs) EXCEPT !.initStateMsgs = <<>>]
    IN  [StatusOutput(s2) EXCEPT !.listener = "input"]

\* The promise chain after queue.open(): the size check at start-up.
OpenCheck(s, above) ==
    IF above
      THEN QueueClose(StatusOutput([s EXCEPT !.maxDBFileSizeReached = TRUE]))
      ELSE s

\* checkDBSize, once isAboveDBFileSizeLimit has settled.
CheckDBSize(s, above) ==
    IF above
      THEN ClearTimers(Disconnected([s EXCEPT !.maxDBFileSizeReached = TRUE]))
      ELSE s

\* node.on('close'), up to the call of queue.close().
OnClose(s) ==
    LET s1 == ClearTimers(Disconnected([s EXCEPT !.isNodeClosing = TRUE]))
    IN  IF QueueIsOpen(s1)
          THEN [QueueClose(s1) EXCEPT !.pending.close = "closing"]
          ELSE [s1 EXCEPT !.pending.close = "done"]

\* ------------------------------------------ retry-queue.js: input handlers
\* initialMsgs: the listener registered while the store is opening.
InitialMsgs(s, m) == [s EXCEPT !.initMsgs = Append(@, m)]

\* Faulty variants of processAcknowledgement: one that leaves the timeout
\* running, one that deletes the job in both modes.
ProcessAcknowledgementKeepingTimer(s, m) ==
    LET s2 == IF config.ack_mode = "ack"
                THEN QueueDelete(s, m.queue_id[1])
                ELSE [s EXCEPT !.timers = @ (+) SetToBag({ Timer(m, "delay", FALSE) })]
    IN  RetryStatusOutput(s2)

ProcessAcknowledgement(s, m) ==
    LET id == m.queue_id[1]
        tracked == { x \in BagToSet(s.timers) :
                       x.tracked /\ x.msg.queue_id = m.queue_id }
        s1 == [s EXCEPT !.timers = @ (-) SetToBag(tracked),
                        !.timeouts = @ \ { id }]
        s2 == IF config.ack_mode = "ack"
                THEN QueueDelete(s1, id)
                ELSE [s1 EXCEPT !.timers = @ (+) SetToBag({ Timer(m, "delay", FALSE) })]
    IN  RetryStatusOutput(s2)

\* The listener registered by the 'open' handler.
RetryInput(s, m) ==
    IF m.queue_id # <<>> THEN ProcessAcknowledgement(s, m) ELSE QueueAdd(s, m)

\* Faulty variants of the timeout callback: one that deletes in both modes,
\* one that resends in both modes.
TimeoutCallbackDeleting(s, m) ==
    RetryStatusOutput(QueueDelete(s, m.queue_id[1]))

TimeoutCallbackResending(s, m) == ReSend(s, m)

\* The callback of the timeout armed by reSend.
TimeoutCallback(s, m) ==
    IF config.ack_mode = "ack"
      THEN ReSend(s, m)
      ELSE RetryStatusOutput(QueueDelete(s, m.queue_id[1]))

\* queue.on('open'): add what was buffered, listen for input, start the store.
RetryOnOpen(s) ==
    LET s1 == [AddAll(s, s.initMsgs) EXCEPT !.initMsgs = <<>>]
        s2 == [RetryStatusOutput(s1) EXCEPT !.listener = "input"]
    IN  IF ~QueueIsEmpty(s2) THEN QueueStart(s2) ELSE s2

\* node.on('close'), up to the call of queue.close().
RetryOnClose(s) ==
    LET s1 == IF s.statusTimer THEN [s EXCEPT !.statusTimer = FALSE] ELSE s
    IN  IF QueueIsOpen(s1)
          THEN [QueueClose(s1) EXCEPT !.pending.close = "closing"]
          ELSE [s1 EXCEPT !.pending.close = "done"]

\* ------------------------------------------------------------ initial state
NoStatus == [fill |-> "", shape |-> "", text |-> "", remaining |-> <<>>]

PriorJobs(n) == [i \in 1..n |-> [id |-> i, job |-> Msg(MaxPrior - n + i)]]

InitWith(configs) ==
    /\ config \in configs
    /\ prior \in { PriorJobs(n) : n \in 0..MaxPrior }
    /\ isConnected = FALSE
    /\ isNodeClosing = FALSE
    /\ initStateMsgs = <<>>
    /\ initMsgs = <<>>
    /\ statusTimer = FALSE
    /\ fileSizeTimer = [handle |-> FALSE, armed |-> FALSE]
    /\ maxDBFileSizeReached = FALSE
    /\ status = NoStatus
    /\ listener = "initial"
    /\ timeouts = {}
    /\ timers = EmptyBag
    /\ queue = [phase |-> "opening", run |-> FALSE, jobs |-> prior,
                lastID |-> Len(prior), dispatched |-> <<>>, closes |-> 0]
    /\ pending = [openCheck |-> FALSE, sizeCheck |-> FALSE, close |-> "no",
                  invoked |-> 0]
    /\ out = <<>>
    /\ log = <<>>
    /\ deleted = <<>>
    /\ events = 0
    /\ nextTrace = <<>>
    /\ signal = <<>>

Init == InitWith(NodeConfigs)

\* ------------------------------------------------------------------ actions
\* What the node did with a payload, read off the state before and after,
\* and the state it was received in.
PathTaken(s, s1) ==
    IF s1.queue.lastID > s.queue.lastID THEN "add"
    ELSE IF Len(s1.out) > Len(s.out) THEN "send"
    ELSE IF Len(s1.initMsgs) > Len(s.initMsgs) THEN "buffer"
    ELSE "drop"

Received(s, s1) ==
    [ path |-> PathTaken(s, s1), isConnected |-> s.isConnected,
      isEmpty |-> QueueIsEmpty(s), halted |-> s.maxDBFileSizeReached ]

\* The node's 'input' event: the listener registered at the time runs.
Deliver(s, m) ==
    IF IsQueueNode
      THEN (IF s.listener = "initial" THEN InitialState(s, m) ELSE Input(s, m))
      ELSE (IF s.listener = "initial" THEN InitialMsgs(s, m) ELSE RetryInput(s, m))

\* A payload message arrives on the node's input.
ReceivePayload ==
    /\ pending.close = "no"
    /\ Len(log) < MaxMsgs
    /\ IsQueueNode \/ events < MaxRetryEvents
    /\ LET s1 == Deliver(S, Msg(MaxPrior + Len(log) + 1))
       IN  Commit([s1 EXCEPT !.log = Append(@, Received(S, s1)),
                             !.events = IF IsQueueNode THEN @ ELSE @ + 1])

\* A status message arrives on the queue node's input; with trace, signal
\* records the text and the state it met when processStatus handled it.
StatusArrives(trace) ==
    /\ IsQueueNode
    /\ pending.close = "no"
    /\ listener = "initial" => Len(initStateMsgs) < MaxInitState
    /\ \E text \in Texts :
          Commit([Deliver(S, StatusMsg(text)) EXCEPT !.signal =
                    IF trace /\ listener = "input"
                      THEN << [text |-> text, isConnected |-> isConnected,
                               run |-> queue.run] >>
                      ELSE <<>>])

ReceiveStatus == StatusArrives(FALSE)

ClassifyStatus == StatusArrives(TRUE)

\* The messages downstream may answer: those sent with a queue_id, in this
\* session or (the prior jobs) in the one before.
Answerable ==
    { out[i] : i \in { j \in 1..Len(out) : out[j].queue_id # <<>> } }
      \cup { WithQueueId(prior[i].job, prior[i].id) : i \in 1..Len(prior) }

\* What downstream may put on the input in answer: the message as it was
\* sent, or one with the same queue_id whose payload downstream replaced
\* (by an error text, a response body).
Replaced(m) == [m EXCEPT !.payload = 0]

Responses == Answerable \cup { Replaced(m) : m \in Answerable }

\* A response carrying a queue_id, one of answers, arrives on the retry-queue
\* node's input; with trace, signal records the message.
ResponseArrives(trace, answers) ==
    /\ ~IsQueueNode
    /\ pending.close = "no"
    /\ events < MaxRetryEvents
    /\ \E m \in answers :
          Commit([Deliver(S, m) EXCEPT
                    !.events = @ + 1,
                    !.signal = IF trace THEN << [kind |-> "response", msg |-> m] >>
                               ELSE <<>>])

ReceiveResponse == ResponseArrives(FALSE, Answerable)

TracedResponse == ResponseArrives(TRUE, Answerable)

TracedAnswer == ResponseArrives(TRUE, Responses)

\* A timer set by reSend or by processAcknowledgement fires; with trace,
\* signal records the timer.
TimerFires(trace) ==
    /\ events < MaxRetryEvents
    /\ \E x \in BagToSet(timers) :
          LET s1 == [S EXCEPT !.timers = @ (-) SetToBag({ x }), !.events = @ + 1]
              s2 == IF x.kind = "timeout" THEN TimeoutCallback(s1, x.msg)
                    ELSE ReSend(s1, x.msg)
          IN  Commit([s2 EXCEPT !.signal =
                        IF trace THEN << [kind |-> x.kind, msg |-> x.msg] >>
                        ELSE <<>>])

TimerFired == TimerFires(FALSE)

TracedTimer == TimerFires(TRUE)

\* queue.open() succeeds: the store emits 'open'.
StoreOpened ==
    /\ queue.phase = "opening"
    /\ LET s1 == [S EXCEPT !.queue.phase = "open"]
       IN  Commit(IF IsQueueNode
                    THEN [OnOpen(s1) EXCEPT !.pending.openCheck = TRUE]
                    ELSE RetryOnOpen(s1))

\* queue.open() fails: node.error, the initial listener stays.
StoreOpenFailed ==
    /\ queue.phase = "opening"
    /\ Commit([S EXCEPT !.queue.phase = "failed"])

\* isAboveDBFileSizeLimit settles in the chain after open.
OpenCheckDone ==
    /\ pending.openCheck
    /\ \E above \in (IF config.maxDBFileSize THEN BOOLEAN ELSE { FALSE }) :
          Commit(OpenCheck([S EXCEPT !.pending.openCheck = FALSE], above))

\* The store hands out the job at the head of the queue: 'next'.  A store
\* whose close() has been called hands out nothing more.
StoreNext ==
    /\ queue.phase = "open"
    /\ queue.run
    /\ queue.dispatched = <<>>
    /\ queue.jobs # <<>>
    /\ LET job == Head(queue.jobs)
           s0 == [S EXCEPT !.queue.dispatched = Append(@, [id |-> job.id, dones |-> 0])]
           s1 == IF IsQueueNode THEN OnNext(s0, job) ELSE RetryOnNext(s0, job)
       IN  Commit([s1 EXCEPT !.nextTrace =
                     << [job |-> job,
                         sent |-> SubSeq(s1.out, Len(out) + 1, Len(s1.out)),
                         dones |-> s1.queue.dispatched[1].dones] >>])

\* The store completes a dispatch that was signalled done: the job leaves the
\* queue, and the store emits 'empty' when it was the last one.
StoreAdvance ==
    /\ queue.dispatched # <<>>
    /\ queue.dispatched[1].dones > 0
    /\ LET id == queue.dispatched[1].id
           rest == SelectSeq(queue.jobs, LAMBDA j : j.id # id)
           s1 == [S EXCEPT !.queue.jobs = rest, !.queue.dispatched = <<>>,
                           !.nextTrace = <<>>]
       IN  Commit(IF rest # <<>> THEN s1
                  ELSE IF IsQueueNode THEN OnEmpty(s1) ELSE RetryOnEmpty(s1))

\* queue.close() settles; the close handler's done() follows.
StoreClosed ==
    /\ queue.phase = "closing"
    /\ Commit([S EXCEPT !.queue.phase = "closed", !.queue.run = FALSE,
                        !.queue.dispatched = <<>>, !.nextTrace = <<>>,
                        !.pending.close = IF @ = "closing" THEN "done" ELSE @])

\* The 500 ms status interval fires.
StatusTick ==
    /\ statusTimer
    /\ Commit(IF IsQueueNode THEN StatusOutput(S) ELSE RetryStatusOutput(S))

\* The 10 s file-size interval fires: checkDBSize starts measuring.
FileSizeTick ==
    /\ fileSizeTimer.armed
    /\ ~pending.sizeCheck
    /\ Commit([S EXCEPT !.pending.sizeCheck = TRUE])

\* The measurement settles.
CheckDBSizeDone ==
    /\ pending.sizeCheck
    /\ \E above \in BOOLEAN :
          Commit(CheckDBSize([S EXCEPT !.pending.sizeCheck = FALSE], above))

\* Node-RED closes the node: the close handler runs, for at most the
\* limit-th time.
CloseInvoked(limit) ==
    /\ pending.invoked < limit
    /\ LET s1 == [S EXCEPT !.pending.invoked = @ + 1]
       IN  Commit(IF IsQueueNode THEN OnClose(s1) ELSE RetryOnClose(s1))

Close == CloseInvoked(1)

CloseAgain == CloseInvoked(MaxCloses)

Next ==
    \/ ReceivePayload
    \/ ReceiveStatus
    \/ ReceiveResponse
    \/ TimerFired
    \/ StoreOpened
    \/ StoreOpenFailed
    \/ OpenCheckDone
    \/ StoreNext
    \/ StoreAdvance
    \/ StoreClosed
    \/ StatusTick
    \/ FileSizeTick
    \/ CheckDBSizeDone
    \/ Close

Spec == Init /\ [][Next]_vars

\* The store's own events are scheduled fairly: a 'next' that stays due is
\* emitted, a dispatch signalled done is completed.
FairSpec == Spec /\ WF_vars(StoreNext) /\ WF_vars(StoreAdvance)

\* The classifier on its own: the queue node under every combination of the
\* two rules and their match types, receiving status signals.
ClassifierConfigs ==
    { c \in Configs : c.nodeType = "queue" /\ ~c.maxDBFileSize }

ClassifierInit == InitWith(ClassifierConfigs)

ClassifierNext ==
    \/ StoreOpened
    \/ ClassifyStatus
    \/ StoreNext
    \/ StoreAdvance

ClassifierSpec == ClassifierInit /\ [][ClassifierNext]_vars

\* The retry-queue node on its own, in both modes, with the responses and
\* the timer firings traced.
RetryConfigs == { c \in Configs : c.nodeType = "retry-queue" }

RetryInit == InitWith(RetryConfigs)

RetryNext ==
    \/ ReceivePayload
    \/ TracedResponse
    \/ TracedTimer
    \/ StoreOpened
    \/ StoreOpenFailed
    \/ StoreNext
    \/ StoreAdvance
    \/ StoreClosed
    \/ StatusTick
    \/ Close

RetrySpec == RetryInit /\ [][RetryNext]_vars

\* The retry-queue node in nack mode, where the message of a response is
\* used again: downstream may answer with a replaced payload.
NackConfigs == { c \in RetryConfigs : c.ack_mode = "nack" }

NackInit == InitWith(NackConfigs)

NackNext ==
    \/ ReceivePayload
    \/ TracedAnswer
    \/ TracedTimer
    \/ StoreOpened
    \/ StoreOpenFailed
    \/ StoreNext
    \/ StoreAdvance
    \/ StoreClosed
    \/ StatusTick
    \/ Close

NackSpec == NackInit /\ [][NackNext]_vars

\* Shutdown: both nodes, with a close handler that may be invoked again.  The
\* responses and the retry timers are left out: their handlers neither close
\* the store nor change what queue.isOpen() returns.
ShutdownNext ==
    \/ ReceivePayload
    \/ ReceiveStatus
    \/ StoreOpened
    \/ StoreOpenFailed
    \/ OpenCheckDone
    \/ StoreNext
    \/ StoreAdvance
    \/ StoreClosed
    \/ StatusTick
    \/ FileSizeTick
    \/ CheckDBSizeDone
    \/ CloseAgain

ShutdownSpec == Init /\ [][ShutdownNext]_vars

\* ------------------------------------------------------------------- claims
\* The payload numbers of a sequence of messages.
Payloads(msgs) == [i \in 1..Len(msgs) |-> msgs[i].payload]

\* The numbers of ns, in increasing order.
Ascending(ns) ==
    SelectSeq([i \in 1..(MaxPrior + MaxMsgs) |-> i], LAMBDA n : n \in ns)

\* The payload received as the i-th of this session.
Arrival(i) == MaxPrior + i

\* C1: on the queue node, the payload messages sent downstream appear in the
\* order in which they were received, whatever the sequence of payloads,
\* status signals, store events and size checks.
C1_SentInArrivalOrder ==
    IsQueueNode =>
        \A i, j \in 1..Len(out) : i < j => out[i].payload < out[j].payload

\* Until the size-limit halt the order is kept.
OrderedUnlessHalted ==
    IsQueueNode /\ ~maxDBFileSizeReached =>
        \A i, j \in 1..Len(out) : i < j => out[i].payload < out[j].payload

\* The payloads of this session that were received while Disconnected.
ReceivedDisconnected ==
    { Arrival(i) : i \in { k \in 1..Len(log) : ~log[k].isConnected } }

\* C2: the payloads received while Disconnected are, once the state is
\* Connected again and the store has been drained, exactly what downstream
\* received of them: each one once, in arrival order.
C2_DisconnectedBatchInOrder ==
    IsQueueNode /\ isConnected /\ queue.jobs = <<>> /\ queue.dispatched = <<>> =>
        SelectSeq(Payloads(out), LAMBDA n : n \in ReceivedDisconnected)
            = Ascending(ReceivedDisconnected)

\* A step in which the input listener of the open store handles a payload.
PayloadStep == IsQueueNode /\ listener = "input" /\ Len(log') = Len(log) + 1

\* The payload of a PayloadStep is appended to the store and nothing is sent.
Stored ==
    /\ queue'.jobs = Append(queue.jobs, [id |-> queue.lastID + 1,
                                         job |-> Msg(Arrival(Len(log')))])
    /\ out' = out

\* The payload of a PayloadStep is sent downstream and the store is untouched.
Forwarded ==
    /\ out' = Append(out, Msg(Arrival(Len(log'))))
    /\ queue'.jobs = queue.jobs
    /\ queue'.lastID = queue.lastID

\* C3 (as claimed): every payload received after open while Disconnected is
\* appended to the store and is neither dropped nor forwarded directly.
C3_StoredWhileDisconnected ==
    [][PayloadStep /\ ~isConnected => Stored]_vars

\* C3 (amended): every payload received after open while Disconnected, the
\* size-limit halt not being active, is appended to the store and is neither
\* dropped nor forwarded directly.
C3_StoredWhileDisconnectedNotHalted ==
    [][PayloadStep /\ ~isConnected /\ ~maxDBFileSizeReached => Stored]_vars

C3_Witness ==
    /\ IsQueueNode
    /\ \E i \in 1..Len(log) :
          /\ log[i] = [path |-> "add", isConnected |-> FALSE,
                       isEmpty |-> FALSE, halted |-> FALSE]
          /\ \E j \in 1..Len(queue.jobs) : queue.jobs[j].job = Msg(Arrival(i))

\* C4: a payload received while Connected with the store empty is sent
\* downstream at once, and queue.add is not called for it.
C4_Bypass ==
    [][PayloadStep /\ isConnected /\ queue.jobs = <<>> => Forwarded]_vars

C4_Witness ==
    /\ IsQueueNode
    /\ \E i \in 1..Len(log) :
          /\ log[i] = [path |-> "send", isConnected |-> TRUE,
                       isEmpty |-> TRUE, halted |-> FALSE]
          /\ \E j \in 1..Len(out) : out[j] = Msg(Arrival(i))

\* The store is first in, first out: whatever is sent outside a PayloadStep
\* is the job at the head of the store, a job leaves the store only from its
\* head, and jobs are added only at its tail.
Fifo ==
    /\ ~PayloadStep /\ out' # out =>
          queue.jobs # <<>> /\ out' = Append(out, Head(queue.jobs).job)
    /\ queue'.jobs # queue.jobs =>
          \/ queue.jobs # <<>> /\ queue'.jobs = Tail(queue.jobs)
          \/ IsPrefix(queue.jobs, queue'.jobs)

\* The store is being drained: Connected, and the open, started store holds
\* jobs.
Draining ==
    isConnected /\ queue.jobs # <<>> /\ queue.phase = "open" /\ queue.run

\* C5: while the store is drained (Connected, store not empty) every payload
\* received is appended behind the jobs already queued, and is delivered
\* after all of them.
C5_AppendedWhileDraining ==
    [][IsQueueNode =>
         /\ PayloadStep /\ Draining => Stored
         /\ Fifo]_vars

\* The same, as long as the size-limit halt is not active.
AppendedWhileDrainingNotHalted ==
    [][IsQueueNode =>
         /\ PayloadStep /\ Draining /\ ~maxDBFileSizeReached => Stored
         /\ Fifo]_vars

\* C6: if the state becomes Connected and stays Connected, then (the store's
\* events being scheduled fairly) every job of the store is eventually sent
\* and the store becomes empty, and it stays empty: the payloads received from
\* then on are forwarded directly.
C6_DrainsOnceConnected ==
    <>[](IsQueueNode /\ isConnected) => <>[](queue.jobs = <<>>)

\* The same for a store that stays open.
DrainsOnceConnectedAndOpen ==
    <>[](IsQueueNode /\ isConnected /\ queue.phase = "open")
        => <>[](queue.jobs = <<>>)

\* C7: at most one dispatch is in flight, in both nodes: the store has at most
\* one dispatch outstanding, every 'next' handler sends exactly the job it was
\* handed and calls done() exactly once, so that no dispatch is left in flight
\* when any other handler runs.
C7_AtMostOneInFlight ==
    /\ Len(queue.dispatched) <= 1
    /\ \A i \in 1..Len(queue.dispatched) : queue.dispatched[i].dones = 1
    /\ nextTrace # <<>> =>
          /\ nextTrace[1].dones = 1
          /\ nextTrace[1].sent =
                << IF IsQueueNode THEN nextTrace[1].job.job
                   ELSE WithQueueId(nextTrace[1].job.job, nextTrace[1].job.id) >>

C7_Witness ==
    /\ nextTrace # <<>>
    /\ nextTrace[1].job.id > 1
    /\ Len(queue.jobs) > 1
    /\ ~IsQueueNode

\* The classifier as the design states it (ConnectionStateClassifier): a rule
\* matches by substring containment or by pattern, per its mode.
Matches(rule, mode, text) ==
    IF mode = "str" THEN Includes(text, rule) ELSE ReMatch(text, rule)

Classify(text) ==
    LET st == StripPrefix(text)
        connectedMatches ==
            /\ config.connectedMatch # <<>>
            /\ Matches(config.connectedMatch, config.connectedMatchType, st)
        disconnectedMatches ==
            /\ config.disconnectedMatch # <<>>
            /\ Matches(config.disconnectedMatch, config.disconnectedMatchType, st)
    IN  IF connectedMatches THEN "Connected"
        ELSE IF disconnectedMatches THEN "Disconnected"
        ELSE IF config.connectedMatch = <<>> THEN "Connected"
        ELSE IF config.disconnectedMatch = <<>> THEN "Disconnected"
        ELSE "Unchanged"

\* C8: processStatus agrees with the priority-ordered classifier, for every
\* combination of rules empty or set, matching or not: the state after a
\* status signal is Connected, Disconnected or what it was before, as the
\* classifier says.
C8_ProcessStatusAgrees ==
    signal # <<>> =>
        LET r == Classify(signal[1].text)
        IN  /\ r = "Connected" => isConnected
            /\ r = "Disconnected" => ~isConnected
            /\ r = "Unchanged" => isConnected = signal[1].isConnected

\* Both rules match the text, the state was Disconnected: Connected wins.
C8_Witness ==
    /\ signal # <<>>
    /\ signal[1].text = << "dis", "connected" >>
    /\ ~signal[1].isConnected
    /\ config.connectedMatch = << "connected" >>
    /\ config.disconnectedMatch = << "dis" >>
    /\ isConnected

\* The README's configuration: the pattern ^connected, no disconnected rule.
ReadmeRules ==
    /\ config.connectedMatch = << Anchor, "connected" >>
    /\ config.connectedMatchType = "re"
    /\ config.disconnectedMatch = <<>>

\* C9 (as claimed): with the pattern ^connected and no disconnected rule, the
\* text "connected" gives Connected and the text "disconnected" gives
\* Connected too.
C9_BothTextsConnected ==
    signal # <<>> /\ ReadmeRules =>
        /\ signal[1].text = << "connected" >> => isConnected
        /\ signal[1].text = << "dis", "connected" >> => isConnected

\* C9 (amended): with the pattern ^connected and no disconnected rule, the
\* text "connected" gives Connected and the text "disconnected" gives
\* Disconnected (the default when the connected rule is set and does not
\* match, and there is no disconnected rule).
C9_TruthTable ==
    signal # <<>> /\ ReadmeRules =>
        /\ signal[1].text = << "connected" >> => isConnected
        /\ signal[1].text = << "dis", "connected" >> => ~isConnected

C9_Witness ==
    /\ signal # <<>>
    /\ ReadmeRules
    /\ signal[1].text = << "dis", "connected" >>
    /\ signal[1].isConnected
    /\ ~isConnected

\* C10: with both rules set and a text that matches neither, the signal is
\* ignored: the connectivity state and the store's started or stopped state
\* are what they were.
C10_UnmatchedSignalIgnored ==
    /\ signal # <<>>
    /\ config.connectedMatch # <<>>
    /\ config.disconnectedMatch # <<>>
    /\ ~Matches(config.connectedMatch, config.connectedMatchType,
                StripPrefix(signal[1].text))
    /\ ~Matches(config.disconnectedMatch, config.disconnectedMatchType,
                StripPrefix(signal[1].text))
    => /\ isConnected = signal[1].isConnected
       /\ queue.run = signal[1].run

C10_Witness ==
    /\ signal # <<>>
    /\ signal[1].text = << "up" >>
    /\ config.connectedMatch = << Anchor, "connected" >>
    /\ config.disconnectedMatch = << "down" >>
    /\ signal[1].isConnected
    /\ signal[1].run
    /\ isConnected
    /\ queue.run

\* ------------------------------------------------- claims: the retry-queue
Range(seq) == { seq[k] : k \in 1..Len(seq) }

\* The timers not yet fired whose message carries queue_id i.
TimersFor(bag, i) == { x \in BagToSet(bag) : x.msg.queue_id = << i >> }

\* What the step sent downstream.
NewlySent == SubSeq(out', Len(out) + 1, Len(out'))

\* A step in which the input listener of the open store handles a response
\* carrying queue_id i.
ResponseStep(i) ==
    /\ listener = "input"
    /\ signal' # <<>>
    /\ signal'[1].kind = "response"
    /\ signal'[1].msg.queue_id = << i >>

\* A step in which the timeout armed by reSend for queue_id i fires.
TimeoutStep(i) ==
    /\ signal' # <<>>
    /\ signal'[1].kind = "timeout"
    /\ signal'[1].msg.queue_id = << i >>

\* C11: in ack mode, an acknowledgement carrying queue_id i cancels the
\* pending timer for i and calls delete(i) exactly once, sending nothing; and
\* once delete(i) was called, no message with queue_id i is sent again.
C11_AckDeletesAndStopsResend ==
    [][config.ack_mode = "ack" =>
         \A i \in 1..queue.lastID :
            /\ ResponseStep(i) =>
                  /\ TimersFor(timers', i) = {}
                  /\ i \notin timeouts'
                  /\ deleted' = Append(deleted, i)
                  /\ out' = out
            /\ i \in Range(deleted) =>
                  \A k \in 1..Len(NewlySent) : NewlySent[k].queue_id # << i >>]_vars

\* Job i was sent with a timeout armed, the acknowledgement came, and later
\* steps followed.
C11_Witness ==
    /\ config.ack_mode = "ack"
    /\ \E i \in Range(deleted) :
          /\ \E k \in 1..Len(out) : out[k].queue_id = << i >>
          /\ TimersFor(timers, i) = {}
          /\ i > MaxPrior
    /\ signal # <<>>
    /\ signal[1].kind = "timeout"

\* How often message m occurs in a sequence of messages.
Count(msgs, m) == Cardinality({ k \in 1..Len(msgs) : msgs[k] = m })

\* C12: in ack mode, each time the timeout of a dispatched job i fires, job i
\* is sent exactly once more, with the payload and queue_id it was sent with
\* before, a new timeout is armed for it, and delete(i) is not called.
C12_TimeoutResends ==
    [][config.ack_mode = "ack" =>
         \A i \in 1..queue.lastID :
            TimeoutStep(i) =>
               /\ NewlySent = << signal'[1].msg >>
               /\ signal'[1].msg \in Range(out)
               /\ CopiesIn(Timer(signal'[1].msg, "timeout", TRUE), timers') = 1
               /\ Cardinality(TimersFor(timers', i)) = 1
               /\ i \in timeouts'
               /\ deleted' = deleted]_vars

\* The timeout of a job fired for the second time: the job went out three
\* times and its timeout is armed again.
C12_Witness ==
    /\ config.ack_mode = "ack"
    /\ signal # <<>>
    /\ signal[1].kind = "timeout"
    /\ Count(out, signal[1].msg) = 3
    /\ TimersFor(timers, signal[1].msg.queue_id[1]) # {}
    /\ deleted = <<>>

\* How many timers not yet fired carry queue_id i.
TimerCount(bag, i) ==
    BagCardinality([x \in TimersFor(bag, i) |-> CopiesIn(x, bag)])

\* C13: in nack mode, when the timeout of a dispatched job i fires and no
\* response for i has arrived (no other timer is pending for i), delete(i) is
\* called and job i is not resent: nothing is sent and no timer for i is left.
C13_NackTimeoutDeletes ==
    [][config.ack_mode = "nack" =>
         \A i \in 1..queue.lastID :
            TimeoutStep(i) =>
               /\ deleted' = Append(deleted, i)
               /\ NewlySent = <<>>
               /\ \A j \in 1..Len(queue'.jobs) : queue'.jobs[j].id # i
               /\ TimerCount(timers', i) = TimerCount(timers, i) - 1
               /\ TimerCount(timers, i) = 1 => TimersFor(timers', i) = {}]_vars

\* The job was added after open (sent by reSend), its timeout fired with no
\* response before it, and it was deleted.
C13_Witness ==
    /\ config.ack_mode = "nack"
    /\ signal # <<>>
    /\ signal[1].kind = "timeout"
    /\ signal[1].msg.queue_id[1] > MaxPrior
    /\ deleted = signal[1].msg.queue_id
    /\ Count(out, signal[1].msg) = 1
    /\ TimersFor(timers, signal[1].msg.queue_id[1]) = {}

\* A step in which the delay set by processAcknowledgement for a response
\* carrying queue_id i ends.
DelayStep(i) ==
    /\ signal' # <<>>
    /\ signal'[1].kind = "delay"
    /\ signal'[1].msg.queue_id = << i >>

\* The jobs of the store with id i, as messages carrying their queue_id.
JobMsgs(i) ==
    { WithQueueId(queue.jobs[j].job, i) :
        j \in { k \in 1..Len(queue.jobs) : queue.jobs[k].id = i } }

\* The timeouts not yet fired of which timeouts[i] holds the handle.
Tracked(bag, i) == { x \in TimersFor(bag, i) : x.tracked }

\* What a response for i does when the input listener meets it while the
\* timeout of job i is pending: it cancels that timeout, calls no delete and
\* sends nothing at once, and sets one more delay, after which m is resent.
NackCancelsAndDelays(i, m) ==
    /\ Tracked(timers', i) = {}
    /\ i \notin timeouts'
    /\ deleted' = deleted
    /\ NewlySent = <<>>
    /\ CopiesIn(Timer(m, "delay", FALSE), timers')
         = CopiesIn(Timer(m, "delay", FALSE), timers) + 1

\* When the delay ends, the message it was set for is sent once and a fresh
\* timeout is armed for its queue_id; delete is not called.
DelayedResend ==
    \A i \in 1..queue.lastID :
       DelayStep(i) =>
          /\ NewlySent = << signal'[1].msg >>
          /\ CopiesIn(Timer(signal'[1].msg, "timeout", TRUE), timers') = 1
          /\ Cardinality(Tracked(timers', i)) = 1
          /\ i \in timeouts'
          /\ deleted' = deleted

\* C14: in nack mode, a response carrying queue_id i that arrives before the
\* timeout of job i fires cancels that timeout, does not call delete(i), and
\* causes job i (the payload of the store's job, with its queue_id) to be
\* resent with a fresh timeout armed for i.
C14_NackResponseResendsJob ==
    [][/\ \A i \in 1..queue.lastID :
             (ResponseStep(i) /\ Tracked(timers, i) # {} /\ JobMsgs(i) # {}) =>
                \E m \in JobMsgs(i) : NackCancelsAndDelays(i, m)
       /\ DelayedResend]_vars

\* What the code does: the message resent is the message of the response,
\* which is job i only if downstream left the payload as it was.
NackResponseResendsResponse ==
    [][/\ \A i \in 1..queue.lastID :
             (ResponseStep(i) /\ Tracked(timers, i) # {}) =>
                NackCancelsAndDelays(i, signal'[1].msg)
       /\ DelayedResend]_vars

\* A response with a replaced payload met the pending timeout of a job added
\* in this session, and after the delay that response was sent downstream.
NackResponseResent ==
    /\ signal # <<>>
    /\ signal[1].kind = "delay"
    /\ signal[1].msg.payload = 0
    /\ signal[1].msg.queue_id[1] > MaxPrior
    /\ Len(out) = 2
    /\ out[1].queue_id = signal[1].msg.queue_id
    /\ out[1].payload # 0
    /\ out[2] = signal[1].msg
    /\ JobMsgs(signal[1].msg.queue_id[1]) = { out[1] }

\* The ids of the jobs a store holds.
JobIds(q) == { q.jobs[k].id : k \in 1..Len(q.jobs) }

\* Every payload is persisted: one received by the input listener is added
\* to the store in that step, one received while the store is opening is
\* buffered, and the buffer is added to the store when the store opens.
AlwaysPersisted ==
    /\ Len(log') > Len(log) => log'[Len(log')].path \in { "add", "buffer" }
    /\ (listener = "initial" /\ listener' = "input") =>
          /\ initMsgs' = <<>>
          /\ Len(queue'.jobs) = Len(queue.jobs) + Len(initMsgs)
          /\ \A k \in 1..Len(initMsgs) :
                queue'.jobs[Len(queue.jobs) + k].job = initMsgs[k]

\* C15: in ack mode every payload message is added to the store (no bypass),
\* and a job leaves the store only in a step that handles an acknowledgement
\* carrying its queue_id, the jobs dispatched by the store's next/done drain
\* of a prior session included.
C15_DurableUntilAck ==
    [][config.ack_mode = "ack" =>
         /\ AlwaysPersisted
         /\ \A i \in JobIds(queue) \ JobIds(queue') : ResponseStep(i)]_vars

\* What the code guarantees of the claim: the payloads are always persisted.
AckModeAlwaysPersists == [][config.ack_mode = "ack" => AlwaysPersisted]_vars

\* ------------------------------------------------- claims: guard, shutdown
\* C16: once a size check has found the store above the ceiling, the node is
\* halted for good: the flag never reverts, the state is Disconnected when
\* the flag is set and after every later step (connectivity signals are
\* ignored), and the drain is not started.
C16_HaltIsTerminal ==
    [][/\ maxDBFileSizeReached => maxDBFileSizeReached'
       /\ maxDBFileSizeReached' => ~isConnected' /\ ~queue'.run]_vars

\* What the code guarantees of the claim: the flag never reverts, and the
\* periodic check leaves the node Disconnected with the drain stopped.
HaltFlagNeverReverts ==
    [][/\ maxDBFileSizeReached => maxDBFileSizeReached'
       /\ (/\ pending.sizeCheck /\ ~pending.sizeCheck'
           /\ ~maxDBFileSizeReached /\ maxDBFileSizeReached') =>
             ~isConnected' /\ ~queue'.run]_vars

\* The periodic check halted the node, and a later connectivity signal made
\* it Connected and started the drain again.
HaltedThenConnected ==
    /\ maxDBFileSizeReached
    /\ isConnected
    /\ queue.run
    /\ queue.phase = "open"
    /\ queue.jobs # <<>>

\* The close handler has run and found the store open: the store's close has
\* begun or has settled.
CloseBegun(p, q) ==
    \/ p.close = "closing"
    \/ p.close = "done" /\ q.phase = "closed"

\* From the close handler on: no interval and no retry timer is left, nothing
\* is sent, added or deleted, and completion is signalled only once the
\* store's close has settled.
Quiesced ==
    /\ CloseBegun(pending', queue') =>
          /\ timers' = EmptyBag
          /\ ~statusTimer'
          /\ ~fileSizeTimer'.armed
    /\ CloseBegun(pending, queue) =>
          /\ out' = out
          /\ deleted' = deleted
          /\ queue'.lastID = queue.lastID
    /\ (pending.close = "closing" /\ pending.close' = "done") =>
          queue'.phase = "closed"

\* C17: on shutdown, in both controllers, every interval timer and every
\* per-message retry timer is cancelled before the store is closed; after the
\* close began no timer fires, no message is sent and nothing is added or
\* deleted; completion is signalled only after the store's close settled.
C17_ShutdownQuiesces == [][Quiesced]_vars

\* What holds of the claim for the queue node alone.
QueueShutdownQuiesces == [][IsQueueNode => Quiesced]_vars

\* The retry-queue node was closed and its store's close has settled, and
\* then the timeout of a job fired and the job was sent again.
ResentAfterClose ==
    /\ config.ack_mode = "ack"
    /\ pending.close = "done"
    /\ queue.phase = "closed"
    /\ signal # <<>>
    /\ signal[1].kind = "timeout"
    /\ out # <<>>
    /\ out[Len(out)] = signal[1].msg
    /\ TimersFor(timers, signal[1].msg.queue_id[1]) # {}

\* A step in which the close handler runs again.
CloseAgainStep == pending.invoked >= 1 /\ pending.invoked' = pending.invoked + 1

\* C18: shutdown is idempotent: when the close handler is invoked again after
\* the store's close() has been called, it does not call close() once more.
C18_StoreClosedOnce ==
    [][(CloseAgainStep /\ queue.closes >= 1) => queue'.closes = queue.closes]_vars

\* What the code guarantees of the claim: a close handler invoked again after
\* the store's close has settled calls close() no more.
ClosedStoreNotClosedAgain ==
    [][(CloseAgainStep /\ queue.phase = "closed") =>
          /\ queue'.closes = queue.closes
          /\ pending'.close = "done"]_vars

\* The close handler ran twice and both times called the store's close().
StoreClosedTwice ==
    /\ pending.invoked = 2
    /\ queue.closes = 2
    /\ ~maxDBFileSizeReached

\* ------------------------------------------------------- claims: start-up
\* The connectivity state after the statuses of msgs were classified in order.
RECURSIVE StateAfter(_, _)
StateAfter(c, msgs) ==
    IF msgs = <<>> THEN c
    ELSE LET r == Classify(Head(msgs).status[1])
         IN  StateAfter(IF r = "Connected" THEN TRUE
                        ELSE IF r = "Disconnected" THEN FALSE
                        ELSE c, Tail(msgs))

\* While the store is opening, a payload is appended to one buffer and a
\* status to the other, and nothing else happens to either message.
BufferedInOrder ==
    (listener = "initial" /\ listener' = "initial") =>
       /\ initMsgs' # initMsgs =>
             initMsgs' = Append(initMsgs, Msg(Arrival(Len(log'))))
       /\ initStateMsgs' # initStateMsgs =>
             \E text \in Texts : initStateMsgs' = Append(initStateMsgs, StatusMsg(text))
       /\ Len(log') > Len(log) => initMsgs' # initMsgs
       /\ queue'.jobs = queue.jobs
       /\ out' = out
       /\ isConnected' = isConnected

\* When the store opens, the buffered payloads are added to the store in
\* arrival order, the buffered statuses are classified in order, and both
\* buffers are left empty for good.
ReplayedOnce ==
    /\ (listener = "initial" /\ listener' = "input") =>
          /\ queue'.jobs = queue.jobs \o
                [k \in 1..Len(initMsgs) |->
                    [id |-> queue.lastID + k, job |-> initMsgs[k]]]
          /\ isConnected' = StateAfter(isConnected, initStateMsgs)
          /\ out' = out
    /\ listener' = "input" => initMsgs' = <<>> /\ initStateMsgs' = <<>>
    /\ listener = "input" => listener' = "input"

\* The payloads of this session that were received before the store opened.
Buffered ==
    { Arrival(i) : i \in { k \in 1..Len(log) : log[k].path = "buffer" } }

\* Of the payloads of this session that were sent, those received before the
\* store opened come before those received after.
BufferedFirst ==
    \A i, j \in 1..Len(out) :
       (/\ out[i].payload \in Buffered
        /\ out[j].payload > MaxPrior
        /\ out[j].payload \notin Buffered) => i < j

\* C19: on the queue node, what arrives before the store opens is buffered in
\* two ordered sequences; at open the payloads are added in arrival order and
\* then the statuses classified in order, once; and every buffered payload
\* precedes every payload received after open in the order of delivery.
C19_StartupReplay ==
    [][IsQueueNode => BufferedInOrder /\ ReplayedOnce /\ BufferedFirst']_vars

\* What the code guarantees of the claim: the buffering and the replay, and
\* the order of delivery until the size-limit halt.
StartupReplayUnlessHalted ==
    [][IsQueueNode =>
          /\ BufferedInOrder
          /\ ReplayedOnce
          /\ ~maxDBFileSizeReached' => BufferedFirst']_vars

\* A payload received after open was sent before a buffered one.
BufferedOvertaken ==
    /\ IsQueueNode
    /\ \E i, j \in 1..Len(out) :
          /\ i < j
          /\ out[j].payload \in Buffered
          /\ out[i].payload > MaxPrior
          /\ out[i].payload \notin Buffered

\* ------------------------------------------------- claims: pending timers
\* The timeouts armed by reSend for queue_id i that have not fired and were
\* not cancelled, each counted as often as it is armed.
ActiveTimeouts(i) ==
    BagCardinality([x \in { y \in TimersFor(timers, i) : y.kind = "timeout" }
                      |-> CopiesIn(x, timers)])

\* The PendingAck invariant for queue_id i.
PendingAckInvariant(i) ==
    /\ ActiveTimeouts(i) <= 1
    /\ i \in Range(deleted) => i \notin timeouts

\* C20: in every reachable state, in both modes, there is at most one active
\* timer per queue_id, and the entry of an id that was acknowledged or
\* deleted from the store is removed.
C20_OneTimerPerId == \A i \in 1..queue.lastID : PendingAckInvariant(i)

\* What the code guarantees of the claim: all of it in ack mode.
AckModeOneTimerPerId ==
    config.ack_mode = "ack" => \A i \in 1..queue.lastID : PendingAckInvariant(i)

\* In nack mode a job was answered twice, and two timeouts are armed for it.
TwoTimeoutsForOneId ==
    /\ config.ack_mode = "nack"
    /\ \E i \in 1..queue.lastID :
          /\ ActiveTimeouts(i) = 2
          /\ Count(out, WithQueueId(Msg(i), i)) = 3
          /\ i \notin Range(deleted)

\* In nack mode a timeout deleted its job and the entry of the id is kept.
EntryKeptAfterDelete ==
    /\ config.ack_mode = "nack"
    /\ \E i \in Range(deleted) : i \in timeouts /\ TimersFor(timers, i) = {}

\* The job with id i has been sent downstream in this session.
Dispatched(i) == \E k \in 1..Len(out) : out[k].queue_id = << i >>

\* C21: whenever a job has been dispatched and is still outstanding (still in
\* the store), exactly one timeout is active for its queue_id, whether it was
\* dispatched on add or by the store's next event; and no id has more than
\* one active timeout (a stale one is cancelled before a new one is armed).
C21_OneTimerWhileOutstanding ==
    \A i \in 1..queue.lastID :
       /\ (i \in JobIds(queue) /\ Dispatched(i)) => ActiveTimeouts(i) = 1
       /\ ActiveTimeouts(i) <= 1

\* What the code guarantees of the claim: a job that is sent in the step
\* that adds it to the store (the store not being started) has exactly one
\* timeout armed by that step.
DispatchOnAddArmsOneTimer ==
    [][(queue'.lastID = queue.lastID + 1 /\ NewlySent # <<>>) =>
          /\ NewlySent = << WithQueueId(queue'.jobs[Len(queue'.jobs)].job,
                                        queue'.lastID) >>
          /\ TimerCount(timers', queue'.lastID) = 1
          /\ queue'.lastID \in timeouts']_vars

\* A job of a prior session was sent by the store's next event and is still
\* in the store, and no timer is armed for it.
DispatchedByNextWithoutTimer ==
    /\ nextTrace # <<>>
    /\ nextTrace[1].job.id \in JobIds(queue)
    /\ Dispatched(nextTrace[1].job.id)
    /\ TimersFor(timers, nextTrace[1].job.id) = {}

\* ------------------------------------------- claims: the retry-queue drain
\* The step in which the store opens and the 'open' handler runs.
OpenStep == listener = "initial" /\ listener' = "input"

\* A step in which the input listener adds a payload while the store is not
\* started.
AddStep == listener = "input" /\ queue'.lastID = queue.lastID + 1 /\ ~queue.run

\* A step in which the store emits 'next'.
NextStep == queue.dispatched = <<>> /\ queue'.dispatched # <<>>

\* A step in which the store completes the dispatch of its last job and
\* emits 'empty'.
EmptyStep ==
    /\ queue.dispatched # <<>>
    /\ queue'.dispatched = <<>>
    /\ queue.phase = "open"
    /\ queue.jobs # <<>>
    /\ queue'.jobs = <<>>

\* The message a step sends for the job it added.
AddedJobSent ==
    NewlySent = << WithQueueId(queue'.jobs[Len(queue'.jobs)].job, queue'.lastID) >>

\* C22: the store is started at open if it is not empty; a job added while
\* the store is not started is dispatched at once, and every job is
\* dispatched exactly once (the store's next event dispatches no job that
\* was dispatched before); the drain is stopped when the store reports empty.
C22_DrainStartsAndStops ==
    [][/\ OpenStep => queue'.run = (queue'.jobs # <<>>)
       /\ AddStep => AddedJobSent
       /\ NextStep => ~Dispatched(queue'.dispatched[1].id)
       /\ EmptyStep => ~queue'.run]_vars

\* The means the design names for the dispatch on add: the add starts the
\* store.
StartedOnAdd == [][AddStep => queue'.run]_vars

\* What the code guarantees of the claim: the start at open, the stop at
\* empty, and that a job added while the store is not started is sent at
\* once by the 'add' handler, which leaves the store not started.
DrainStartsAtOpenOnly ==
    [][/\ OpenStep => queue'.run = (queue'.jobs # <<>>)
       /\ AddStep => ~queue'.run /\ AddedJobSent
       /\ EmptyStep => ~queue'.run]_vars

\* A payload buffered before open was sent by the 'add' handler at open and
\* then again by the store's next event.
DispatchedTwiceAtOpen ==
    /\ nextTrace # <<>>
    /\ nextTrace[1].job.id > Len(prior)
    /\ Len(out) = 2
    /\ out[1] = out[2]
    /\ out[1].queue_id = << nextTrace[1].job.id >>
    /\ events = 1

\* ------------------------------------------ claims: acknowledgement intake
\* No job of the store is a message that carried a queue_id when it came in.
NoResponseStored(q) ==
    \A k \in 1..Len(q.jobs) : q.jobs[k].job.queue_id = <<>>

\* The input listener of the open store handles a message carrying queue_id
\* i as a response: it adds no job and cancels the timeout of i.
ResponseProcessed ==
    \A i \in 1..queue.lastID :
       ResponseStep(i) =>
          /\ queue'.lastID = queue.lastID
          /\ Tracked(timers', i) = {}
          /\ i \notin timeouts'

\* C23: every inbound message that carries a queue_id is processed as an
\* acknowledgement or negative acknowledgement for that id and is never
\* added to the store as a new job, whether it arrives before or after the
\* store has opened.
C23_ResponsesNeverStored ==
    [][ResponseProcessed /\ NoResponseStored(queue')]_vars

\* What the code guarantees of the claim: the part after open.
ResponsesProcessedAfterOpen ==
    [][/\ ResponseProcessed
       /\ (listener = "input" /\ NoResponseStored(queue)) =>
             NoResponseStored(queue')]_vars

\* A response for job 1 of the prior session arrived while the store was
\* opening; at open it was added as a new job and sent under a new queue_id,
\* and job 1 is still in the store.
ResponseStoredAsJob ==
    /\ listener = "input"
    /\ Len(prior) = 1
    /\ queue.jobs = << prior[1], [id |-> 2, job |-> WithQueueId(prior[1].job, 1)] >>
    /\ out # <<>>
    /\ out[1] = WithQueueId(prior[1].job, 2)
    /\ deleted = <<>>

\* ---------------------------------------- claims: sending and connectivity
\* On the queue node a step sends only while Connected, and after it the
\* store is started exactly if the state is Connected.
SendsOnlyConnected ==
    /\ NewlySent # <<>> => isConnected
    /\ queue'.run <=> isConnected'

\* C24 (as claimed): on the queue node no message is sent downstream while
\* the state is Disconnected, neither by the drain, which is started exactly
\* when the state is Connected, nor by a direct forward.
C24_NoSendWhileDisconnected == [][IsQueueNode => SendsOnlyConnected]_vars

\* C24 (amended): the same, as long as the size-limit halt is not active.
C24_NoSendWhileDisconnectedNotHalted ==
    [][IsQueueNode /\ ~maxDBFileSizeReached' => SendsOnlyConnected]_vars

\* A payload was received while Disconnected and stored, and was sent only
\* after the state became Connected and the drain was started.
C24_Witness ==
    /\ IsQueueNode
    /\ ~maxDBFileSizeReached
    /\ isConnected
    /\ queue.run
    /\ nextTrace # <<>>
    /\ \E i \in 1..Len(log) :
          /\ ~log[i].isConnected
          /\ log[i].path = "add"
          /\ nextTrace[1].sent = << Msg(Arrival(i)) >>
          /\ out = << Msg(Arrival(i)) >>

\* ------------------------------------------------- claims: after a delete
\* How many timeouts armed by reSend for queue_id i a bag of timers holds.
TimeoutsIn(bag, i) ==
    BagCardinality([x \in { y \in TimersFor(bag, i) : y.kind = "timeout" }
                      |-> CopiesIn(x, bag)])

\* After delete(i) was called, a step sends no message with queue_id i and
\* arms no timeout for i.
QuietAfterDelete ==
    \A i \in Range(deleted) :
       /\ \A k \in 1..Len(NewlySent) : NewlySent[k].queue_id # << i >>
       /\ TimeoutsIn(timers', i) <= TimeoutsIn(timers, i)

\* C25: once the store's delete(i) has been called for a queue_id i (by an
\* acknowledgement in ack mode, by a timeout in nack mode), no message with
\* queue_id i is sent downstream again and no timer is armed for i again,
\* whatever responses and timer firings follow.
C25_NothingAfterDelete == [][QuietAfterDelete]_vars

\* What the code guarantees of the claim: all of it in ack mode.
AckModeNothingAfterDelete ==
    [][config.ack_mode = "ack" => QuietAfterDelete]_vars

\* In nack mode the timeout of a job deleted it, a response for it came
\* afterwards, and after the delay the job was sent again with a timeout.
ResentAfterDelete ==
    /\ config.ack_mode = "nack"
    /\ signal # <<>>
    /\ signal[1].kind = "delay"
    /\ signal[1].msg.queue_id[1] \in Range(deleted)
    /\ Count(out, signal[1].msg) = 2
    /\ TimeoutsIn(timers, signal[1].msg.queue_id[1]) = 1

====
